---- MODULE Spec2Model ----
(***************************************************************************)
(* OAuth2/OIDC authorization server core of sso-telechubbiies:             *)
(* backend/app/api/v1/endpoints/oauth.py, backend/app/api/v1/endpoints/    *)
(* auth.py, backend/app/core/security.py and the three store models        *)
(* (OAuthClient, OAuthAuthorizationCode, RefreshToken).                    *)
(*                                                                         *)
(* Every request handler runs in its own database session.  A handler that *)
(* reads a row, decides, and commits later is modelled in as many steps as *)
(* it has store accesses that other requests can interleave with: the read *)
(* (with the checks made on the row it read) and each commit.              *)
(*                                                                         *)
(* Python None is the string "None"; an optional string is falsy when it   *)
(* is None or empty.  A scope string is the set of its space-separated     *)
(* names, the absent/empty scope being the empty set.  Time is in minutes. *)
(***************************************************************************)
EXTENDS Integers, Sequences, FiniteSets, TLC

\* ---------------------------------------------------------------- bounds
MaxLogins == 1      \* first-party logins per behaviour
MaxCodes == 1       \* authorization codes issued per behaviour
MaxReq == 3         \* token / refresh requests started per behaviour
MaxTicks == 1      \* clock advances per behaviour
MaxSecretRotations == 1     \* secrets rotate-secret issues per client
MaxCodesLife == 2  \* authorization codes per behaviour of the code life cycle

\* ------------------------------------------------------ program constants
CODE_EXPIRE_MINUTES == 10
ACCESS_TOKEN_EXPIRE_MINUTES == 15
REFRESH_TOKEN_EXPIRE_DAYS == 7

\* ------------------------------------------------------------ value sets
NoneV == "None"
Truthy(s) == s \notin {NoneV, ""}

Workers == {1, 2}
Users == {"u1", "u2"}
TickSteps == {CODE_EXPIRE_MINUTES, REFRESH_TOKEN_EXPIRE_DAYS * 24 * 60 + 1}

NoBearer == [type |-> "none"]
NoIdToken == [type |-> "none"]
NoTokens == [type |-> "none"]
NoResponse == [op |-> "none"]
NoReq == [grant_type |-> NoneV]
NotRotated == [token |-> 0, refresh |-> 0]
IdleWorker == [pc |-> "idle", req |-> NoReq, row |-> 0, after |-> FALSE]

ClaimGroups == {"email", "profile", "teams", "roles", "workspaces", "permissions"}

\* ------------------------------------------------------------------ state
VARIABLES
    clients,        \* oauth_clients rows, keyed by client_id
    users,          \* users rows
    codes,          \* oauth_authorization_codes rows (sequence, in issue order)
    refreshTokens,  \* refresh_tokens rows (sequence, in issue order)
    accessTokens,   \* access tokens that have been handed out
    now,            \* datetime.now(timezone.utc), in minutes
    w,              \* per worker: position and locals of the request in progress
    response,       \* the response produced by the last step, until delivered
    redeemed,       \* per code: number of token responses returned for it
    rotated,        \* per refresh token: number of responses that rotated it, by endpoint
    nLogins, nReq, nTicks

vars == <<clients, users, codes, refreshTokens, accessTokens, now, w, response,
          redeemed, rotated, nLogins, nReq, nTicks>>

\* -------------------------------------------------- core/security.py
get_password_hash(password) == "bcrypt:" \o password

verify_password(plain_password, hashed_password) ==
    get_password_hash(plain_password) = hashed_password

generate_secure_token(prefix, n) == prefix \o ToString(n)

hash_token(token) == "sha256:" \o token

\* base64url(sha256(verifier)) without padding
S256(code_verifier) == "S256:" \o code_verifier

verify_code_challenge(code_verifier, code_challenge, method) ==
    IF method = "plain" THEN code_verifier = code_challenge
    ELSE IF method = "S256" THEN S256(code_verifier) = code_challenge
    ELSE FALSE

create_access_token(sub, scope, client_id) ==
    [type |-> "access", sub |-> sub, scope |-> scope, client_id |-> client_id,
     exp |-> now + ACCESS_TOKEN_EXPIRE_MINUTES]

create_id_token_without_nonce(data, nonce) ==
    [type |-> "id", sub |-> data.sub, aud |-> data.aud, claims |-> data.claims,
     nonce |-> NoneV]

create_id_token(data, nonce) ==
    [type |-> "id", sub |-> data.sub, aud |-> data.aud, claims |-> data.claims,
     nonce |-> IF Truthy(nonce) THEN nonce ELSE NoneV]

\* jwt.decode: the signature is the server's and the token is unexpired
decode_token(token) ==
    IF token \in accessTokens /\ now <= token.exp THEN token ELSE NoBearer

\* -------------------------------------------------- models
is_public(client) == client.client_type = "public"
is_confidential(client) == client.client_type = "confidential"
validate_redirect_uri(client, redirect_uri) == redirect_uri \in client.redirect_uris
validate_scopes_any(client, scopes) == \E s \in scopes : s \in client.allowed_scopes

validate_scopes(client, scopes) == \A s \in scopes : s \in client.allowed_scopes

code_is_expired(auth_code) == now > auth_code.expires_at
code_is_valid_ignoring_used(auth_code) == ~code_is_expired(auth_code)

code_is_valid(auth_code) == ~auth_code.used /\ ~code_is_expired(auth_code)
requires_pkce(auth_code) == auth_code.code_challenge # NoneV

token_is_expired(token_record) == now > token_record.expires_at
token_is_valid_ignoring_revoked(token_record) == ~token_is_expired(token_record)

token_is_valid(token_record) == ~token_record.revoked /\ ~token_is_expired(token_record)

\* scope.split() if scope else ["openid"]
ScopesOf(scope) == IF scope = {} THEN {"openid"} ELSE scope

\* ------------------------------------------------------------------ Init
\* users rows; u1 is the system owner
RegisteredUsers ==
    [u \in Users |-> [is_active |-> TRUE, password_hash |-> get_password_hash("pw"),
                      is_system_owner |-> (u = "u1")]]

\* oauth_clients rows; secret_rotations counts the secrets issued by
\* rotate-secret (it names the next generated secret)
RegisteredClients ==
    [pub  |-> [client_type |-> "public", client_secret_hash |-> NoneV,
               redirect_uris |-> {"https://app/cb", "https://app/cb2"},
               allowed_scopes |-> {"openid", "profile"}, is_active |-> TRUE,
               secret_rotations |-> 0],
     conf |-> [client_type |-> "confidential",
               client_secret_hash |-> get_password_hash("s3cret"),
               redirect_uris |-> {"https://app/cb", "https://app/cb2"},
               allowed_scopes |-> {"openid", "profile"}, is_active |-> TRUE,
               secret_rotations |-> 0],
     off  |-> [client_type |-> "confidential",
               client_secret_hash |-> get_password_hash("s3cret"),
               redirect_uris |-> {"https://app/cb"},
               allowed_scopes |-> {"openid"}, is_active |-> FALSE,
               secret_rotations |-> 0]]

Init ==
    /\ clients = RegisteredClients
    /\ users = RegisteredUsers
    /\ codes = <<>>
    /\ refreshTokens = <<>>
    /\ accessTokens = {}
    /\ now = 0
    /\ w = [p \in Workers |-> IdleWorker]
    /\ response = NoResponse
    /\ redeemed = <<>>
    /\ rotated = <<>>
    /\ nLogins = 0 /\ nReq = 0 /\ nTicks = 0

\* ------------------------------------------------------------ responses
Direct(op, req, status, detail) ==
    [op |-> op, req |-> req, status |-> status, detail |-> detail,
     location |-> NoneV, error |-> NoneV, state |-> NoneV, code |-> NoneV,
     url |-> <<>>, tokens |-> NoTokens, claims |-> {}]

\* the characters of a string as they stand in a URL: a reserved character is
\* an element of its own, a run of other characters is one element
UrlChars(s) == IF s = "a&b" THEN <<"a", "&", "b">> ELSE <<s>>

\* the redirect URLs authorize formats (f-strings; the values are inserted as
\* they are, nothing is percent-encoded)
error_redirect_url(redirect_uri, error, state) ==
    <<redirect_uri, "?", "error", "=", error>>
    \o (IF error = "invalid_request"
        THEN <<"&", "error_description", "=", "PKCE+required">> ELSE <<>>)
    \o <<"&", "state", "=">> \o UrlChars(state)

code_redirect_url(redirect_uri, code, state) ==
    <<redirect_uri, "?", "code", "=", code>>
    \o (IF state # NoneV THEN <<"&", "state", "=">> \o UrlChars(state) ELSE <<>>)

RedirectResponse(op, req, location, error, state, code) ==
    [op |-> op, req |-> req, status |-> 307, detail |-> NoneV,
     location |-> location, error |-> error, state |-> state, code |-> code,
     url |-> IF error # NoneV THEN error_redirect_url(location, error, state)
             ELSE code_redirect_url(location, code, state),
     tokens |-> NoTokens, claims |-> {}]

TokenResponse(op, req, access_token, refresh_token, scope, id_token) ==
    [op |-> op, req |-> req, status |-> 200, detail |-> NoneV,
     location |-> NoneV, error |-> NoneV, state |-> NoneV, code |-> NoneV,
     url |-> <<>>,
     tokens |-> [type |-> "Bearer", access_token |-> access_token,
                 refresh_token |-> refresh_token, scope |-> scope,
                 id_token |-> id_token],
     claims |-> {}]

NewRefreshRow(n, user_id, client_id, scope) ==
    [token_hash |-> hash_token(generate_secure_token("rt", n)),
     user_id |-> user_id, client_id |-> client_id, scope |-> scope,
     expires_at |-> now + REFRESH_TOKEN_EXPIRE_DAYS * 24 * 60,
     revoked |-> FALSE]

\* the response is handed to the caller before the next step is taken
Deliver ==
    /\ response # NoResponse
    /\ response' = NoResponse
    /\ UNCHANGED <<clients, users, codes, refreshTokens, accessTokens, now, w,
                   redeemed, rotated, nLogins, nReq, nTicks>>

Tick ==
    /\ response = NoResponse
    /\ nTicks < MaxTicks
    /\ \E d \in TickSteps : now' = now + d
    /\ nTicks' = nTicks + 1
    /\ UNCHANGED <<clients, users, codes, refreshTokens, accessTokens, w,
                   response, redeemed, rotated, nLogins, nReq>>

\* -------------------------------------------------- api/deps.py
\* get_current_user_optional: the user of a valid access token, if active
get_current_user_optional(bearer) ==
    LET payload == decode_token(bearer) IN
    IF payload = NoBearer THEN NoneV
    ELSE IF payload.type # "access" THEN NoneV
    ELSE IF payload.sub \in DOMAIN users /\ users[payload.sub].is_active
         THEN payload.sub ELSE NoneV

\* -------------------------------------------------- services/user_service.py
authenticate(email, password) ==
    IF email \notin DOMAIN users THEN NoneV
    ELSE IF ~verify_password(password, users[email].password_hash) THEN NoneV
    ELSE IF ~users[email].is_active THEN NoneV
    ELSE email

\* -------------------------------------------------- endpoints/auth.py
\* (email, password) of POST /auth/login
LoginInputs == {<<"u1", "pw">>, <<"u1", "wrong">>, <<"u2", "wrong">>, <<"nobody", "pw">>}

login ==
    /\ response = NoResponse
    /\ nLogins < MaxLogins
    /\ \E cred \in LoginInputs :
        LET email == cred[1]
            password == cred[2]
            user == authenticate(email, password)
            req == [email |-> email, password |-> password]
            n == Len(refreshTokens) + 1
            access_token == create_access_token(user, {}, NoneV)
        IN  IF user = NoneV
            THEN /\ response' = Direct("login", NoReq, 401, "Invalid email or password")
                 /\ UNCHANGED <<refreshTokens, rotated, accessTokens, nLogins>>
            ELSE /\ refreshTokens' = Append(refreshTokens, NewRefreshRow(n, user, NoneV, {}))
                 /\ rotated' = Append(rotated, NotRotated)
                 /\ accessTokens' = accessTokens \cup {access_token}
                 /\ nLogins' = nLogins + 1
                 /\ response' = TokenResponse("login", req, access_token,
                                              generate_secure_token("rt", n), {}, NoIdToken)
    /\ UNCHANGED <<clients, users, codes, now, w, redeemed, nReq, nTicks>>

\* a request is taken by the first idle worker
FreeWorker(p) ==
    /\ w[p].pc = "idle"
    /\ \A q \in Workers : w[q].pc = "idle" => p <= q

\* -------------------------------------------------- endpoints/oauth.py
\* query parameters of GET /authorize
Bearers == accessTokens \cup {NoBearer}
ResponseTypes == {"code", "token"}
ClientIds == {"pub", "conf", "off", "nope"}
RedirectUris == {"https://app/cb", "https://evil/cb"}
StateInputs == {NoneV, "xyz", "a&b"}
\* (scope, nonce)
OidcInputs == {<<{}, NoneV>>, <<{"profile"}, "n1">>, <<{"openid", "profile"}, "n1">>,
               <<{"openid", "admin"}, NoneV>>}
\* (code_challenge, code_challenge_method)
PkceInputs == {<<NoneV, NoneV>>, <<"", NoneV>>, <<"v1", "plain">>,
               <<S256("v1"), NoneV>>, <<"v1", "S512">>}

\* the parameters of a plain request: no PKCE for the confidential client,
\* S256 for the public one
PlainPkce == {<<NoneV, NoneV>>, <<S256("v1"), NoneV>>}

\* one request shape of the confidential client: scope openid, no PKCE
OneOidc == {<<{"openid"}, NoneV>>}
NoPkce == {<<NoneV, NoneV>>}

OrEmpty(s) == IF Truthy(s) THEN s ELSE ""

NewCodeRow(n, client_id, user_id, redirect_uri, scope, nonce, code_challenge, code_challenge_method) ==
    [code |-> generate_secure_token("code", n),
     client_id |-> client_id, user_id |-> user_id,
     redirect_uri |-> redirect_uri, scope |-> scope,
     nonce |-> nonce, code_challenge |-> code_challenge,
     code_challenge_method |->
        IF Truthy(code_challenge_method) THEN code_challenge_method ELSE "S256",
     expires_at |-> now + CODE_EXPIRE_MINUTES,
     used |-> FALSE]

pkce_required_if_none(client, code_challenge) ==
    is_public(client) /\ code_challenge = NoneV

\* PKCE is required and missing: client.is_public and not code_challenge
pkce_required(client, code_challenge) == is_public(client) /\ ~Truthy(code_challenge)

\* GET /authorize.  The parameters are drawn in the order the handler reads
\* them; a request that has failed a check is not distinguished by the
\* parameters the handler never came to read.
authorize(Oidc, Pkce, Limit) ==
    /\ response = NoResponse
    /\ \E bearer \in Bearers, redirect_uri \in RedirectUris, state \in StateInputs :
        LET current_user == get_current_user_optional(bearer)
            Err(e) == /\ response' = RedirectResponse("authorize", NoReq, redirect_uri,
                                                      e, OrEmpty(state), NoneV)
                      /\ UNCHANGED <<codes, redeemed>>
        IN
        IF current_user = NoneV
        THEN /\ response' = Direct("authorize", NoReq, 401, "Not authenticated")
             /\ UNCHANGED <<codes, redeemed>>
        ELSE \E response_type \in ResponseTypes :
        IF response_type # "code" THEN Err("unsupported_response_type")
        ELSE \E client_id \in ClientIds :
        IF client_id \notin DOMAIN clients \/ ~clients[client_id].is_active
            THEN Err("invalid_client")
        ELSE IF ~validate_redirect_uri(clients[client_id], redirect_uri)
            THEN Err("invalid_redirect_uri")
        ELSE \E oidc \in Oidc :
        IF ~validate_scopes(clients[client_id], ScopesOf(oidc[1]))
            THEN Err("invalid_scope")
        ELSE \E pkce \in Pkce :
        IF pkce_required(clients[client_id], pkce[1])
            THEN Err("invalid_request")
        ELSE /\ Len(codes) < Limit
             /\ codes' = Append(codes,
                    NewCodeRow(Len(codes) + 1, client_id, current_user, redirect_uri,
                               oidc[1], oidc[2], pkce[1], pkce[2]))
             /\ redeemed' = Append(redeemed, 0)
             /\ response' = RedirectResponse("authorize", NoReq, redirect_uri, NoneV,
                                IF Truthy(state) THEN state ELSE NoneV,
                                generate_secure_token("code", Len(codes) + 1))
    /\ UNCHANGED <<clients, users, refreshTokens, accessTokens, now, w, rotated,
                   nLogins, nReq, nTicks>>

\* form fields of POST /token
\* the secrets rotate-secret has issued so far
IssuedSecrets ==
    {generate_secure_token("secret", k) :
        k \in {n \in 1..MaxSecretRotations :
                    \E c \in DOMAIN clients : n <= clients[c].secret_rotations}}

SecretInputs == {NoneV, "s3cret", "wrong"} \cup IssuedSecrets
TokenRedirectInputs == {NoneV, "https://app/cb", "https://app/cb2"}
VerifierInputs == {NoneV, "v1", "v2"}
CodeInputs == {NoneV, "code0"} \cup {codes[i].code : i \in 1..Len(codes)}
RefreshInputs ==
    {NoneV, "rt0"} \cup {generate_secure_token("rt", i) : i \in 1..Len(refreshTokens)}

ClientAuth_secret_unverified(client_id, client_secret) ==
    IF client_id \notin DOMAIN clients \/ ~clients[client_id].is_active
        THEN "Invalid client"
    ELSE IF is_confidential(clients[client_id])
        THEN IF ~Truthy(client_secret) THEN "Client secret required" ELSE "ok"
    ELSE "ok"

\* token(): client lookup and client authentication; "ok" or the 401 detail
ClientAuth(client_id, client_secret) ==
    IF client_id \notin DOMAIN clients \/ ~clients[client_id].is_active
        THEN "Invalid client"
    ELSE IF is_confidential(clients[client_id])
        THEN IF ~Truthy(client_secret) THEN "Client secret required"
             ELSE IF ~verify_password(client_secret,
                                      clients[client_id].client_secret_hash)
                  THEN "Invalid client secret"
             ELSE "ok"
    ELSE "ok"

\* select(OAuthAuthorizationCode).where(code == code): the row index, 0 if none
FindCode(code) ==
    IF \E i \in 1..Len(codes) : codes[i].code = code
    THEN CHOOSE i \in 1..Len(codes) : codes[i].code = code
    ELSE 0

\* select(RefreshToken).where(token_hash == token_hash): the row index, 0 if none
FindRefreshToken(token_hash) ==
    IF \E i \in 1..Len(refreshTokens) : refreshTokens[i].token_hash = token_hash
    THEN CHOOSE i \in 1..Len(refreshTokens) : refreshTokens[i].token_hash = token_hash
    ELSE 0

CodeGrantCheck_no_redirect_check(client_id, code, redirect_uri, code_verifier) ==
    LET i == FindCode(code) IN
    IF ~Truthy(code) THEN "Authorization code required"
    ELSE IF i = 0 THEN "Invalid authorization code"
    ELSE IF ~code_is_valid(codes[i]) THEN "Authorization code expired or already used"
    ELSE IF codes[i].client_id # client_id THEN "Client mismatch"
    ELSE IF requires_pkce(codes[i]) /\ ~Truthy(code_verifier)
        THEN "Code verifier required"
    ELSE IF requires_pkce(codes[i])
            /\ ~verify_code_challenge(code_verifier, codes[i].code_challenge,
                                      codes[i].code_challenge_method)
        THEN "Invalid code verifier"
    ELSE "ok"

CodeGrantCheck_verifier_unchecked(client_id, code, redirect_uri, code_verifier) ==
    LET i == FindCode(code) IN
    IF ~Truthy(code) THEN "Authorization code required"
    ELSE IF i = 0 THEN "Invalid authorization code"
    ELSE IF ~code_is_valid(codes[i]) THEN "Authorization code expired or already used"
    ELSE IF codes[i].client_id # client_id THEN "Client mismatch"
    ELSE IF codes[i].redirect_uri # redirect_uri THEN "Redirect URI mismatch"
    ELSE IF requires_pkce(codes[i]) /\ ~Truthy(code_verifier)
        THEN "Code verifier required"
    ELSE "ok"

\* _handle_authorization_code_grant from the code lookup to the PKCE check:
\* "ok" or the 400 detail
CodeGrantCheck(client_id, code, redirect_uri, code_verifier) ==
    LET i == FindCode(code) IN
    IF ~Truthy(code) THEN "Authorization code required"
    ELSE IF i = 0 THEN "Invalid authorization code"
    ELSE IF ~code_is_valid(codes[i]) THEN "Authorization code expired or already used"
    ELSE IF codes[i].client_id # client_id THEN "Client mismatch"
    ELSE IF codes[i].redirect_uri # redirect_uri THEN "Redirect URI mismatch"
    ELSE IF requires_pkce(codes[i]) /\ ~Truthy(code_verifier)
        THEN "Code verifier required"
    ELSE IF requires_pkce(codes[i])
            /\ ~verify_code_challenge(code_verifier, codes[i].code_challenge,
                                      codes[i].code_challenge_method)
        THEN "Invalid code verifier"
    ELSE "ok"

\* the checks that read redirect_uri and code_verifier are reached
ReadsRedirectUri(client_id, code) ==
    /\ FindCode(code) # 0
    /\ code_is_valid(codes[FindCode(code)])
    /\ codes[FindCode(code)].client_id = client_id

token_authorization_code_consumes_on_failure(p) ==
    /\ response = NoResponse
    /\ FreeWorker(p)
    /\ \E client_id \in ClientIds, client_secret \in SecretInputs :
        IF ClientAuth(client_id, client_secret) # "ok"
        THEN /\ response' = Direct("token", NoReq, 401, ClientAuth(client_id, client_secret))
             /\ UNCHANGED <<w, nReq, codes>>
        ELSE \E code \in CodeInputs :
        IF ~ReadsRedirectUri(client_id, code)
        THEN /\ response' = Direct("token", NoReq, 400,
                                   CodeGrantCheck(client_id, code, NoneV, NoneV))
             /\ UNCHANGED <<w, nReq, codes>>
        ELSE \E redirect_uri \in TokenRedirectInputs, code_verifier \in VerifierInputs :
        LET req == [grant_type |-> "authorization_code", client_id |-> client_id,
                    client_secret |-> client_secret, code |-> code,
                    redirect_uri |-> redirect_uri, code_verifier |-> code_verifier,
                    refresh_token |-> NoneV]
            check == CodeGrantCheck(client_id, code, redirect_uri, code_verifier)
        IN  IF check # "ok"
            THEN /\ response' = Direct("token", req, 400, check)
                 /\ codes' = [codes EXCEPT ![FindCode(code)].used = TRUE]
                 /\ UNCHANGED <<w, nReq>>
            ELSE /\ nReq < MaxReq
                 /\ nReq' = nReq + 1
                 /\ UNCHANGED codes
                 /\ w' = [w EXCEPT ![p] = [pc |-> "mark_used", req |-> req,
                                           row |-> FindCode(code),
                                           after |-> redeemed[FindCode(code)] > 0]]
                 /\ UNCHANGED response
    /\ UNCHANGED <<clients, users, refreshTokens, accessTokens, now,
                   redeemed, rotated, nLogins, nTicks>>

\* POST /token, grant_type=authorization_code: from the request to the point
\* where the code row has been read and checked
token_authorization_code(p) ==
    /\ response = NoResponse
    /\ FreeWorker(p)
    /\ \E client_id \in ClientIds, client_secret \in SecretInputs :
        IF ClientAuth(client_id, client_secret) # "ok"
        THEN /\ response' = Direct("token", NoReq, 401, ClientAuth(client_id, client_secret))
             /\ UNCHANGED <<w, nReq>>
        ELSE \E code \in CodeInputs :
        IF ~ReadsRedirectUri(client_id, code)
        THEN /\ response' = Direct("token", NoReq, 400,
                                   CodeGrantCheck(client_id, code, NoneV, NoneV))
             /\ UNCHANGED <<w, nReq>>
        ELSE \E redirect_uri \in TokenRedirectInputs, code_verifier \in VerifierInputs :
        LET req == [grant_type |-> "authorization_code", client_id |-> client_id,
                    client_secret |-> client_secret, code |-> code,
                    redirect_uri |-> redirect_uri, code_verifier |-> code_verifier,
                    refresh_token |-> NoneV]
            check == CodeGrantCheck(client_id, code, redirect_uri, code_verifier)
        IN  IF check # "ok"
            THEN /\ response' = Direct("token", req, 400, check)
                 /\ UNCHANGED <<w, nReq>>
            ELSE /\ nReq < MaxReq
                 /\ nReq' = nReq + 1
                 /\ w' = [w EXCEPT ![p] = [pc |-> "mark_used", req |-> req,
                                           row |-> FindCode(code),
                                           after |-> redeemed[FindCode(code)] > 0]]
                 /\ UNCHANGED response
    /\ UNCHANGED <<clients, users, codes, refreshTokens, accessTokens, now,
                   redeemed, rotated, nLogins, nTicks>>

\* auth_code.used = True; await db.commit()
mark_code_used(p) ==
    /\ response = NoResponse
    /\ w[p].pc = "mark_used"
    /\ codes' = [codes EXCEPT ![w[p].row].used = TRUE]
    /\ w' = [w EXCEPT ![p].pc = "issue"]
    /\ UNCHANGED <<clients, users, refreshTokens, accessTokens, now, response,
                   redeemed, rotated, nLogins, nReq, nTicks>>

issue_tokens_fails_resets_used(p) ==
    /\ response = NoResponse
    /\ w[p].pc = "issue"
    /\ codes' = [codes EXCEPT ![w[p].row].used = FALSE]
    /\ response' = Direct("token", w[p].req, 500, "Internal Server Error")
    /\ w' = [w EXCEPT ![p] = IdleWorker]
    /\ UNCHANGED <<clients, users, refreshTokens, accessTokens, now,
                   redeemed, rotated, nLogins, nReq, nTicks>>

\* a store access or await after the first commit raises (connection loss,
\* cancelled request): the session is rolled back and the caller gets a 5xx
issue_tokens_fails(p) ==
    /\ response = NoResponse
    /\ w[p].pc = "issue"
    /\ response' = Direct("token", w[p].req, 500, "Internal Server Error")
    /\ w' = [w EXCEPT ![p] = IdleWorker]
    /\ UNCHANGED <<clients, users, codes, refreshTokens, accessTokens, now,
                   redeemed, rotated, nLogins, nReq, nTicks>>

build_id_token_claims_without_audience(user, scopes, audience) ==
    [sub |-> user, aud |-> "", claims |-> {g \in ClaimGroups : g \in scopes}]

\* _build_id_token_claims: the claim groups disclosed for a scope list
build_id_token_claims(user, scopes, audience) ==
    [sub |-> user, aud |-> audience, claims |-> {g \in ClaimGroups : g \in scopes}]

\* the rest of _handle_authorization_code_grant: user lookup, token minting,
\* refresh row insert, commit, response
issue_tokens(p) ==
    /\ response = NoResponse
    /\ w[p].pc = "issue"
    /\ LET auth_code == codes[w[p].row]
           user == auth_code.user_id
           scopes == ScopesOf(auth_code.scope)
           n == Len(refreshTokens) + 1
           access_token == create_access_token(user, auth_code.scope, w[p].req.client_id)
           id_token == IF "openid" \in scopes
                       THEN create_id_token(
                                build_id_token_claims(user, scopes, w[p].req.client_id),
                                auth_code.nonce)
                       ELSE NoIdToken
       IN  IF user \notin DOMAIN users
           THEN /\ response' = Direct("token", w[p].req, 400, "User not found")
                /\ UNCHANGED <<refreshTokens, rotated, accessTokens, redeemed>>
           ELSE /\ refreshTokens' = Append(refreshTokens,
                        NewRefreshRow(n, user, w[p].req.client_id, auth_code.scope))
                /\ rotated' = Append(rotated, NotRotated)
                /\ accessTokens' = accessTokens \cup {access_token}
                /\ redeemed' = [redeemed EXCEPT ![w[p].row] = @ + 1]
                /\ response' = TokenResponse("token", w[p].req, access_token,
                                   generate_secure_token("rt", n), auth_code.scope, id_token)
    /\ w' = [w EXCEPT ![p] = IdleWorker]
    /\ UNCHANGED <<clients, users, codes, now, nLogins, nReq, nTicks>>

RefreshGrantCheck_no_client_check(client_id, refresh_token_str) ==
    LET i == FindRefreshToken(hash_token(refresh_token_str)) IN
    IF ~Truthy(refresh_token_str) THEN "Refresh token required"
    ELSE IF i = 0 \/ ~token_is_valid(refreshTokens[i]) THEN "Invalid refresh token"
    ELSE IF refreshTokens[i].user_id \notin DOMAIN users
            \/ ~users[refreshTokens[i].user_id].is_active
        THEN "User not found or inactive"
    ELSE "ok"

\* _handle_refresh_token_grant up to the user check: "ok" or the 400 detail
RefreshGrantCheck(client_id, refresh_token_str) ==
    LET i == FindRefreshToken(hash_token(refresh_token_str)) IN
    IF ~Truthy(refresh_token_str) THEN "Refresh token required"
    ELSE IF i = 0 \/ ~token_is_valid(refreshTokens[i]) THEN "Invalid refresh token"
    ELSE IF refreshTokens[i].client_id # client_id THEN "Client mismatch"
    ELSE IF refreshTokens[i].user_id \notin DOMAIN users
            \/ ~users[refreshTokens[i].user_id].is_active
        THEN "User not found or inactive"
    ELSE "ok"

\* POST /token, grant_type=refresh_token: from the request to the point where
\* the token row and its user have been read and checked
token_refresh_token(p) ==
    /\ response = NoResponse
    /\ FreeWorker(p)
    /\ \E client_id \in ClientIds, client_secret \in SecretInputs :
        IF ClientAuth(client_id, client_secret) # "ok"
        THEN /\ response' = Direct("token", NoReq, 401, ClientAuth(client_id, client_secret))
             /\ UNCHANGED <<w, nReq>>
        ELSE \E refresh_token \in RefreshInputs :
        LET req == [grant_type |-> "refresh_token", client_id |-> client_id,
                    client_secret |-> client_secret, code |-> NoneV,
                    redirect_uri |-> NoneV, code_verifier |-> NoneV,
                    refresh_token |-> refresh_token]
            check == RefreshGrantCheck(client_id, refresh_token)
            i == FindRefreshToken(hash_token(refresh_token))
        IN  IF check # "ok"
            THEN /\ response' = Direct("token", req, 400, check)
                 /\ UNCHANGED <<w, nReq>>
            ELSE /\ nReq < MaxReq
                 /\ nReq' = nReq + 1
                 /\ w' = [w EXCEPT ![p] = [pc |-> "rotate", req |-> req, row |-> i,
                                           after |-> rotated[i] # NotRotated]]
                 /\ UNCHANGED response
    /\ UNCHANGED <<clients, users, codes, refreshTokens, accessTokens, now,
                   redeemed, rotated, nLogins, nTicks>>

rotate_refresh_token_drops_scope(p) ==
    /\ response = NoResponse
    /\ w[p].pc = "rotate"
    /\ LET token_record == refreshTokens[w[p].row]
           n == Len(refreshTokens) + 1
           access_token == create_access_token(token_record.user_id, token_record.scope,
                                               w[p].req.client_id)
       IN  /\ refreshTokens' = Append([refreshTokens EXCEPT ![w[p].row].revoked = TRUE],
                    NewRefreshRow(n, token_record.user_id, w[p].req.client_id, {}))
           /\ rotated' = Append([rotated EXCEPT ![w[p].row].token = @ + 1], NotRotated)
           /\ accessTokens' = accessTokens \cup {access_token}
           /\ response' = TokenResponse("token", w[p].req, access_token,
                              generate_secure_token("rt", n), token_record.scope, NoIdToken)
    /\ w' = [w EXCEPT ![p] = IdleWorker]
    /\ UNCHANGED <<clients, users, codes, now, redeemed, nLogins, nReq, nTicks>>

\* token_record.revoked = True; db.add(new_refresh); await db.commit(); response
rotate_refresh_token(p) ==
    /\ response = NoResponse
    /\ w[p].pc = "rotate"
    /\ LET token_record == refreshTokens[w[p].row]
           n == Len(refreshTokens) + 1
           access_token == create_access_token(token_record.user_id, token_record.scope,
                                               w[p].req.client_id)
       IN  /\ refreshTokens' = Append([refreshTokens EXCEPT ![w[p].row].revoked = TRUE],
                    NewRefreshRow(n, token_record.user_id, w[p].req.client_id,
                                  token_record.scope))
           /\ rotated' = Append([rotated EXCEPT ![w[p].row].token = @ + 1], NotRotated)
           /\ accessTokens' = accessTokens \cup {access_token}
           /\ response' = TokenResponse("token", w[p].req, access_token,
                              generate_secure_token("rt", n), token_record.scope, NoIdToken)
    /\ w' = [w EXCEPT ![p] = IdleWorker]
    /\ UNCHANGED <<clients, users, codes, now, redeemed, nLogins, nReq, nTicks>>

revoke_token_without_where ==
    /\ response = NoResponse
    /\ \E token \in RefreshInputs \ {NoneV} :
        /\ refreshTokens' = [i \in 1..Len(refreshTokens) |->
                [refreshTokens[i] EXCEPT !.revoked = TRUE]]
        /\ response' = Direct("revoke", [token |-> token], 200, "Token revoked")
    /\ UNCHANGED <<clients, users, codes, accessTokens, now, w, redeemed, rotated,
                   nLogins, nReq, nTicks>>

\* POST /revoke: UPDATE refresh_tokens SET revoked WHERE token_hash = hash; commit
revoke_token ==
    /\ response = NoResponse
    /\ \E token \in RefreshInputs \ {NoneV} :
        /\ refreshTokens' = [i \in 1..Len(refreshTokens) |->
                IF refreshTokens[i].token_hash = hash_token(token)
                THEN [refreshTokens[i] EXCEPT !.revoked = TRUE]
                ELSE refreshTokens[i]]
        /\ response' = Direct("revoke", [token |-> token], 200, "Token revoked")
    /\ UNCHANGED <<clients, users, codes, accessTokens, now, w, redeemed, rotated,
                   nLogins, nReq, nTicks>>

rotate_client_secret_keeps_hash ==
    /\ response = NoResponse
    /\ \E bearer \in Bearers :
        LET current_user == get_current_user_optional(bearer) IN
        IF current_user = NoneV
        THEN /\ response' = Direct("rotate-secret", NoReq, 401, "Not authenticated")
             /\ UNCHANGED clients
        ELSE IF ~users[current_user].is_system_owner
        THEN /\ response' = Direct("rotate-secret", NoReq, 403, "System owner access required")
             /\ UNCHANGED clients
        ELSE \E client_id \in ClientIds :
        IF client_id \notin DOMAIN clients
        THEN /\ response' = Direct("rotate-secret", NoReq, 404, "Client not found")
             /\ UNCHANGED clients
        ELSE IF clients[client_id].client_type # "confidential"
        THEN /\ response' = Direct("rotate-secret", NoReq, 400,
                                   "Public clients don't have secrets")
             /\ UNCHANGED clients
        ELSE LET n == clients[client_id].secret_rotations + 1
                 new_secret == generate_secure_token("secret", n)
             IN  /\ n <= MaxSecretRotations
                 /\ clients' = [clients EXCEPT ![client_id].secret_rotations = n]
                 /\ response' = Direct("rotate-secret",
                                       [client_id |-> client_id, client_secret |-> new_secret],
                                       200, NoneV)
    /\ UNCHANGED <<users, codes, refreshTokens, accessTokens, now, w, redeemed, rotated,
                   nLogins, nReq, nTicks>>

\* POST /clients/{client_id}/rotate-secret: a new secret is generated, its
\* hash replaces client_secret_hash, and the secret is returned once
rotate_client_secret ==
    /\ response = NoResponse
    /\ \E bearer \in Bearers :
        LET current_user == get_current_user_optional(bearer) IN
        IF current_user = NoneV
        THEN /\ response' = Direct("rotate-secret", NoReq, 401, "Not authenticated")
             /\ UNCHANGED clients
        ELSE IF ~users[current_user].is_system_owner
        THEN /\ response' = Direct("rotate-secret", NoReq, 403, "System owner access required")
             /\ UNCHANGED clients
        ELSE \E client_id \in ClientIds :
        IF client_id \notin DOMAIN clients
        THEN /\ response' = Direct("rotate-secret", NoReq, 404, "Client not found")
             /\ UNCHANGED clients
        ELSE IF clients[client_id].client_type # "confidential"
        THEN /\ response' = Direct("rotate-secret", NoReq, 400,
                                   "Public clients don't have secrets")
             /\ UNCHANGED clients
        ELSE LET n == clients[client_id].secret_rotations + 1
                 new_secret == generate_secure_token("secret", n)
             IN  /\ n <= MaxSecretRotations
                 /\ clients' = [clients EXCEPT
                                    ![client_id].client_secret_hash = get_password_hash(new_secret),
                                    ![client_id].secret_rotations = n]
                 /\ response' = Direct("rotate-secret",
                                       [client_id |-> client_id, client_secret |-> new_secret],
                                       200, NoneV)
    /\ UNCHANGED <<users, codes, refreshTokens, accessTokens, now, w, redeemed, rotated,
                   nLogins, nReq, nTicks>>

\* GET /userinfo
AllScopes == {"openid", "profile", "email", "teams", "roles", "workspaces", "permissions"}

userinfo ==
    /\ response = NoResponse
    /\ \E bearer \in Bearers :
        LET current_user == get_current_user_optional(bearer) IN
        IF current_user = NoneV
        THEN response' = Direct("userinfo", NoReq, 401, "Not authenticated")
        ELSE response' = [Direct("userinfo", [bearer |-> bearer], 200, NoneV)
                            EXCEPT !.claims =
                                build_id_token_claims(current_user, AllScopes, "").claims]
    /\ UNCHANGED <<clients, users, codes, refreshTokens, accessTokens, now, w,
                   redeemed, rotated, nLogins, nReq, nTicks>>

\* -------------------------------------------------- endpoints/auth.py
\* POST /auth/refresh up to the user check: "ok" or the 401 detail
SessionRefreshCheck(raw_refresh) ==
    LET i == FindRefreshToken(hash_token(raw_refresh)) IN
    IF ~Truthy(raw_refresh) THEN "Refresh token not found"
    ELSE IF i = 0 THEN "Invalid refresh token"
    ELSE IF ~token_is_valid(refreshTokens[i]) THEN "Refresh token expired or revoked"
    ELSE IF refreshTokens[i].user_id \notin DOMAIN users
            \/ ~users[refreshTokens[i].user_id].is_active
        THEN "User not found or inactive"
    ELSE "ok"

\* POST /auth/refresh: from the cookie to the point where the token row and
\* its user have been read and checked
refresh_token(p) ==
    /\ response = NoResponse
    /\ FreeWorker(p)
    /\ \E raw_refresh \in RefreshInputs :
        LET req == [grant_type |-> "session", client_id |-> NoneV,
                    client_secret |-> NoneV, code |-> NoneV,
                    redirect_uri |-> NoneV, code_verifier |-> NoneV,
                    refresh_token |-> raw_refresh]
            check == SessionRefreshCheck(raw_refresh)
            i == FindRefreshToken(hash_token(raw_refresh))
        IN  IF check # "ok"
            THEN /\ response' = Direct("refresh", req, 401, check)
                 /\ UNCHANGED <<w, nReq>>
            ELSE /\ nReq < MaxReq
                 /\ nReq' = nReq + 1
                 /\ w' = [w EXCEPT ![p] = [pc |-> "session_rotate", req |-> req,
                                           row |-> i, after |-> rotated[i] # NotRotated]]
                 /\ UNCHANGED response
    /\ UNCHANGED <<clients, users, codes, refreshTokens, accessTokens, now,
                   redeemed, rotated, nLogins, nTicks>>

\* token_record.revoked = True; db.add(new_refresh_token); await db.commit(); response
rotate_session_token(p) ==
    /\ response = NoResponse
    /\ w[p].pc = "session_rotate"
    /\ LET token_record == refreshTokens[w[p].row]
           n == Len(refreshTokens) + 1
           access_token == create_access_token(token_record.user_id, {}, NoneV)
       IN  /\ refreshTokens' = Append([refreshTokens EXCEPT ![w[p].row].revoked = TRUE],
                    NewRefreshRow(n, token_record.user_id, NoneV, {}))
           /\ rotated' = Append([rotated EXCEPT ![w[p].row].refresh = @ + 1], NotRotated)
           /\ accessTokens' = accessTokens \cup {access_token}
           /\ response' = TokenResponse("refresh", w[p].req, access_token,
                              generate_secure_token("rt", n), {}, NoIdToken)
    /\ w' = [w EXCEPT ![p] = IdleWorker]
    /\ UNCHANGED <<clients, users, codes, now, redeemed, nLogins, nReq, nTicks>>

\* UserService.deactivate_user: user.is_active = False; commit
deactivate_user ==
    /\ response = NoResponse
    /\ \E user \in DOMAIN users :
        /\ users[user].is_active
        /\ users' = [users EXCEPT ![user].is_active = FALSE]
    /\ UNCHANGED <<clients, codes, refreshTokens, accessTokens, now, w, response,
                   redeemed, rotated, nLogins, nReq, nTicks>>

\* ------------------------------------------------------------------ Next
\* the authorization-code flow: /authorize, the authorization_code grant and
\* /userinfo, with the clock
CodeFlow ==
    \/ Deliver
    \/ Tick
    \/ login
    \/ authorize(OidcInputs, PkceInputs, MaxCodes)
    \/ \E p \in Workers : token_authorization_code(p)
    \/ \E p \in Workers : mark_code_used(p)
    \/ \E p \in Workers : issue_tokens(p)
    \/ userinfo

\* the refresh flow: an authorization-code exchange, then the refresh_token
\* grant, /auth/refresh and /revoke
RefreshFlow ==
    \/ Deliver
    \/ login
    \/ authorize(OidcInputs, PlainPkce, MaxCodes)
    \/ \E p \in Workers : token_authorization_code(p)
    \/ \E p \in Workers : mark_code_used(p)
    \/ \E p \in Workers : issue_tokens(p)
    \/ \E p \in Workers : token_refresh_token(p)
    \/ \E p \in Workers : rotate_refresh_token(p)
    \/ \E p \in Workers : refresh_token(p)
    \/ \E p \in Workers : rotate_session_token(p)
    \/ revoke_token

\* the client-secret flow: an authorization-code exchange, the refresh_token
\* grant and rotate-secret
SecretFlow ==
    \/ Deliver
    \/ login
    \/ authorize(OidcInputs, PlainPkce, MaxCodes)
    \/ \E p \in Workers : token_authorization_code(p)
    \/ \E p \in Workers : mark_code_used(p)
    \/ \E p \in Workers : issue_tokens(p)
    \/ \E p \in Workers : token_refresh_token(p)
    \/ \E p \in Workers : rotate_refresh_token(p)
    \/ rotate_client_secret

\* the life cycle of authorization codes: several codes, their exchanges
\* with store faults, and the clock
CodeLifeFlow ==
    \/ Deliver
    \/ Tick
    \/ login
    \/ authorize(OneOidc, NoPkce, MaxCodesLife)
    \/ \E p \in Workers : token_authorization_code(p)
    \/ \E p \in Workers : mark_code_used(p)
    \/ \E p \in Workers : issue_tokens(p)
    \/ \E p \in Workers : issue_tokens_fails(p)

\* the deactivation flow: an authorization-code exchange and the
\* refresh_token grant, with users being deactivated
DeactivateFlow ==
    \/ Deliver
    \/ login
    \/ authorize(OidcInputs, PlainPkce, MaxCodes)
    \/ \E p \in Workers : token_authorization_code(p)
    \/ \E p \in Workers : mark_code_used(p)
    \/ \E p \in Workers : issue_tokens(p)
    \/ \E p \in Workers : token_refresh_token(p)
    \/ \E p \in Workers : rotate_refresh_token(p)
    \/ deactivate_user

\* the authorization-code flow with store faults after the first commit
FaultFlow ==
    \/ CodeFlow
    \/ \E p \in Workers : issue_tokens_fails(p)

Next == FaultFlow \/ RefreshFlow \/ SecretFlow \/ CodeLifeFlow \/ DeactivateFlow

Spec == Init /\ [][Next]_vars
SpecCodeFlow == Init /\ [][CodeFlow]_vars
SpecRefreshFlow == Init /\ [][RefreshFlow]_vars
SpecFault == Init /\ [][FaultFlow]_vars
SpecSecretFlow == Init /\ [][SecretFlow]_vars
SpecCodeLife == Init /\ [][CodeLifeFlow]_vars
SpecDeactivate == Init /\ [][DeactivateFlow]_vars

\* ================================================================ claims
InFlightExchange(p) == w[p].pc \in {"mark_used", "issue"}
InFlightRefresh(p) == w[p].pc \in {"rotate", "session_rotate"}
CodeExchangeResponse ==
    /\ response.op = "token"
    /\ response.req # NoReq
    /\ response.req.grant_type = "authorization_code"

\* C1: of the POST /token requests that present one authorization code, at
\* most one returns tokens (and stores a refresh token), however the requests
\* interleave.
C1_AtMostOneExchangePerCode ==
    \A i \in 1..Len(codes) : redeemed[i] <= 1

\* C2: once an exchange of a code has returned tokens, the code is marked used
\* in the store, and no request that reads the code afterwards passes the
\* checks of the authorization_code grant.
C2_RedeemedCodeStaysInvalid ==
    /\ \A i \in 1..Len(codes) : redeemed[i] > 0 => codes[i].used
    /\ \A p \in Workers : InFlightExchange(p) => ~w[p].after

\* C2 witness: a request presenting an unexpired, already redeemed code has
\* been rejected.
C2_Witness ==
    /\ response.op = "token"
    /\ response.detail = "Authorization code expired or already used"
    /\ \E i \in 1..Len(codes) : redeemed[i] > 0 /\ ~code_is_expired(codes[i])

\* C3: a refresh token that a refresh has rotated is revoked in the store as
\* soon as the response exists, and no refresh request that reads the token
\* afterwards passes the checks.
C3_RotatedTokenStaysInvalid ==
    /\ \A i \in 1..Len(refreshTokens) :
        rotated[i] # NotRotated => refreshTokens[i].revoked
    /\ \A p \in Workers : InFlightRefresh(p) => ~w[p].after

\* C3 witness: a refresh_token grant replaying a token that the grant has
\* already rotated has been rejected.
C3_Witness ==
    /\ response.op = "token"
    /\ response.detail = "Invalid refresh token"
    /\ LET i == FindRefreshToken(hash_token(response.req.refresh_token)) IN
        i # 0 /\ rotated[i].token > 0

\* C4: of the refresh_token grant requests that present one refresh token, at
\* most one returns a new token pair, however the requests interleave.
C4_AtMostOneRotationPerToken ==
    \A i \in 1..Len(refreshTokens) : rotated[i].token <= 1

\* C5: an /authorize failure found before the redirect_uri is trusted
\* (unsupported response_type, unknown or inactive client, unregistered
\* redirect_uri) is answered directly, never by a redirect.
C5_NoRedirectBeforeTrust ==
    (/\ response.op = "authorize"
     /\ response.error \in {"unsupported_response_type", "invalid_client",
                            "invalid_redirect_uri"})
        => response.location = NoneV

\* C6: /userinfo discloses a claim group only if its scope is in the scope
\* claim of the presented access token (stated for tokens issued to OAuth
\* clients, which always carry a scope claim).
C6_UserinfoGatedByTokenScope ==
    (/\ response.op = "userinfo"
     /\ response.status = 200
     /\ response.req.bearer.client_id # NoneV)
        => \A g \in response.claims : g \in response.req.bearer.scope

\* C7: a code is marked used only if the request that marked it returns
\* tokens: a used code has been redeemed, or the request that marked it is
\* still between its two commits.
C7_ExchangeAllOrNothing ==
    \A i \in 1..Len(codes) :
        codes[i].used =>
            \/ redeemed[i] > 0
            \/ \E p \in Workers : w[p].pc = "issue" /\ w[p].row = i

\* C8: an exchange whose redirect_uri differs from the one the code was issued
\* for (or is absent) is rejected with 400 and no tokens, the code staying
\* unused; no exchange with a different redirect_uri passes the checks.
C8_RedirectUriMustMatch ==
    /\ \A p \in Workers :
        InFlightExchange(p) => codes[w[p].row].redirect_uri = w[p].req.redirect_uri
    /\ CodeExchangeResponse =>
        LET i == FindCode(response.req.code) IN
        codes[i].redirect_uri # response.req.redirect_uri =>
            /\ response.status = 400
            /\ response.tokens = NoTokens
            /\ ~codes[i].used

\* C8 witness: an exchange supplying the client's other registered
\* redirect_uri has been rejected.
C8_Witness ==
    /\ CodeExchangeResponse
    /\ response.detail = "Redirect URI mismatch"
    /\ response.req.redirect_uri = "https://app/cb2"
    /\ response.req.redirect_uri \in clients[response.req.client_id].redirect_uris

\* C9: every stored code of a public client carries a non-empty
\* code_challenge (a public client's request without one stores no code).
C9_PublicClientCodesCarryChallenge ==
    \A i \in 1..Len(codes) :
        is_public(clients[codes[i].client_id]) => Truthy(codes[i].code_challenge)

\* C9 witness: /authorize has rejected a public client's request for lack of
\* a code_challenge, and no code is stored.
C9_Witness ==
    /\ response.op = "authorize"
    /\ response.error = "invalid_request"
    /\ codes = <<>>

\* C10: an exchange of a code that carries a PKCE challenge passes the checks,
\* and returns tokens, only with a code_verifier that verify_code_challenge
\* accepts for the stored challenge and method.
C10_PkceVerifierRequired ==
    /\ \A p \in Workers :
        (InFlightExchange(p) /\ requires_pkce(codes[w[p].row])) =>
            /\ Truthy(w[p].req.code_verifier)
            /\ verify_code_challenge(w[p].req.code_verifier,
                                     codes[w[p].row].code_challenge,
                                     codes[w[p].row].code_challenge_method)
    /\ (CodeExchangeResponse /\ response.status = 200) =>
        LET auth_code == codes[FindCode(response.req.code)] IN
        requires_pkce(auth_code) =>
            /\ Truthy(response.req.code_verifier)
            /\ verify_code_challenge(response.req.code_verifier,
                                     auth_code.code_challenge,
                                     auth_code.code_challenge_method)

\* C10 witness: an exchange of an S256 code with a verifier that does not
\* match has been rejected.
C10_Witness ==
    /\ CodeExchangeResponse
    /\ response.detail = "Invalid code verifier"
    /\ codes[FindCode(response.req.code)].code_challenge_method = "S256"
    /\ Truthy(response.req.code_verifier)

\* a handler of POST /token that has passed its checks and not yet answered
InFlightTokenRequest(p) == w[p].pc \in {"mark_used", "issue", "rotate"}

SecretVerifies(req) ==
    is_confidential(clients[req.client_id]) =>
        verify_password(req.client_secret, clients[req.client_id].client_secret_hash)

\* C11: a POST /token request of a confidential client gets past client
\* authentication (the only point from which codes or refresh tokens are
\* written) and returns tokens only with a client_secret that verifies against
\* the client's stored secret hash.
C11_ConfidentialClientNeedsSecret ==
    /\ \A p \in Workers : InFlightTokenRequest(p) => SecretVerifies(w[p].req)
    /\ (response.op = "token" /\ response.status = 200) => SecretVerifies(response.req)

\* C11 witness: a request of the confidential client with a wrong secret has
\* been rejected while a valid code issued to that client is stored.
C11_Witness ==
    /\ response.op = "token"
    /\ response.detail = "Invalid client secret"
    /\ \E i \in 1..Len(codes) : codes[i].client_id = "conf" /\ code_is_valid(codes[i])

\* C12: a POST /revoke whose token value hashes to no stored refresh token is
\* answered 200 and leaves every refresh-token row and every code row as it
\* was.
C12_RevokeUnknownChangesNothing ==
    [][(/\ response = NoResponse
        /\ response'.op = "revoke"
        /\ FindRefreshToken(hash_token(response'.req.token)) = 0)
            => /\ response'.status = 200
               /\ refreshTokens' = refreshTokens
               /\ codes' = codes]_vars

\* C12 witness: /revoke has answered a token value that matches no row while
\* an unrevoked refresh token is stored.
C12_Witness ==
    /\ response.op = "revoke"
    /\ response.status = 200
    /\ FindRefreshToken(hash_token(response.req.token)) = 0
    /\ \E i \in 1..Len(refreshTokens) : ~refreshTokens[i].revoked

\* the row has been revoked by POST /revoke: revoked is written by the two
\* rotations, which count themselves in rotated, and by /revoke only
RevokedByEndpoint(i) == refreshTokens[i].revoked /\ rotated[i] = NotRotated

\* C13: once POST /revoke has committed for a stored refresh token, no
\* refresh_token grant presenting that token completes successfully, including
\* one that had read the token before the revoke.
C13_NoRefreshAfterRevoke ==
    [][\A p \in Workers :
        (w[p].pc = "rotate" /\ RevokedByEndpoint(w[p].row))
            => ~(w'[p].pc = "idle" /\ response'.status = 200)]_vars

\* C14: GET /authorize without an authenticated session is answered by a
\* redirect (to the login page when the request passes the parameter checks),
\* never by 401.  The session is resolved before the handler reads any
\* parameter, so the answer to a request without a session is the same for
\* every choice of the other parameters, the ones that pass all checks included.
C14_UnauthenticatedRedirectsToLogin ==
    (response.op = "authorize" /\ response.detail = "Not authenticated")
        => response.status = 307 /\ response.location # NoneV

RECURSIVE JoinChars(_)
JoinChars(chars) ==
    IF chars = <<>> THEN "" ELSE Head(chars) \o JoinChars(Tail(chars))

\* the value a client reads for a query parameter of a redirect URL: the
\* characters after "key=" up to the next "&" (NoneV if the key is absent)
QueryParam(url, key) ==
    LET starts == {k \in 2..(Len(url) - 1) :
                        /\ url[k] = key
                        /\ url[k + 1] = "="
                        /\ url[k - 1] \in {"?", "&"}}
    IN  IF starts = {} THEN NoneV
        ELSE LET k == CHOOSE x \in starts : \A y \in starts : x <= y
                 ends == {e \in (k + 2)..Len(url) : url[e] = "&"}
                 last == IF ends = {} THEN Len(url)
                         ELSE (CHOOSE x \in ends : \A y \in ends : x <= y) - 1
             IN  JoinChars(SubSeq(url, k + 2, last))

\* C15: a scope or PKCE failure found after the client and the redirect_uri
\* are confirmed is answered by a redirect to that redirect_uri whose query
\* carries the error code and the state of the request, and stores no code.
C15_LateErrorsRedirectWithState ==
    (response.op = "authorize" /\ response.error \in {"invalid_scope", "invalid_request"})
        => /\ response.status = 307
           /\ response.url[1] = response.location
           /\ \E c \in DOMAIN clients : response.location \in clients[c].redirect_uris
           /\ QueryParam(response.url, "error") = response.error
           /\ QueryParam(response.url, "state") = response.state
           /\ response.code = NoneV

\* C16: a refresh_token grant that completes marks the presented row revoked
\* and appends exactly one row, with the user, client and scope of the
\* presented row; the access token it returns carries the same three; no
\* other row changes.
C16_RotationPreservesOwnerAndScope ==
    [][\A p \in Workers :
        (w[p].pc = "rotate" /\ w'[p].pc = "idle") =>
            LET i == w[p].row
                old == refreshTokens[i]
                n == Len(refreshTokens) + 1
            IN  /\ Len(refreshTokens') = n
                /\ refreshTokens'[i] = [old EXCEPT !.revoked = TRUE]
                /\ \A j \in 1..Len(refreshTokens) :
                    j # i => refreshTokens'[j] = refreshTokens[j]
                /\ ~refreshTokens'[n].revoked
                /\ refreshTokens'[n].user_id = old.user_id
                /\ refreshTokens'[n].client_id = old.client_id
                /\ refreshTokens'[n].scope = old.scope
                /\ response'.status = 200
                /\ response'.tokens.refresh_token = generate_secure_token("rt", n)
                /\ response'.tokens.access_token.sub = old.user_id
                /\ response'.tokens.access_token.client_id = old.client_id
                /\ response'.tokens.access_token.scope = old.scope]_vars

\* C16 witness: a refresh_token grant has rotated a token that carries a
\* scope.
C16_Witness ==
    /\ response.op = "token"
    /\ response.status = 200
    /\ response.req.grant_type = "refresh_token"
    /\ response.tokens.scope = {"openid", "profile"}
    /\ refreshTokens[Len(refreshTokens)].scope = {"openid", "profile"}

RefreshGrantResponse ==
    /\ response.op = "token"
    /\ response.req # NoReq
    /\ response.req.grant_type = "refresh_token"

PresentedRow(req) == FindRefreshToken(hash_token(req.refresh_token))

\* C17: a refresh_token grant passes its checks, and returns tokens, only for
\* a token whose owning client is the authenticated client; a request
\* rejected for a client mismatch leaves the presented token unrevoked.
C17_RefreshNeedsOwningClient ==
    /\ \A p \in Workers :
        w[p].pc = "rotate" => refreshTokens[w[p].row].client_id = w[p].req.client_id
    /\ (RefreshGrantResponse /\ response.status = 200) =>
        refreshTokens[PresentedRow(response.req)].client_id = response.req.client_id
    /\ (RefreshGrantResponse /\ response.detail = "Client mismatch") =>
        /\ response.status = 400
        /\ response.tokens = NoTokens
        /\ ~refreshTokens[PresentedRow(response.req)].revoked

\* C17 witness: the grant has rejected a first-party session token (owned by
\* no client) that an OAuth client presented, and the token is still valid.
C17_Witness ==
    /\ RefreshGrantResponse
    /\ response.detail = "Client mismatch"
    /\ refreshTokens[PresentedRow(response.req)].client_id = NoneV
    /\ token_is_valid(refreshTokens[PresentedRow(response.req)])

\* C18: the token endpoint accepts an authorization code only strictly before
\* its expiry: a request that passes the code checks reads the code at an
\* instant now < expires_at.
C18_StrictExpiry ==
    [][\A p \in Workers :
        (w[p].pc = "idle" /\ w'[p].pc = "mark_used")
            => now < codes[w'[p].row].expires_at]_vars

\* C19: POST /token answers an authorization code that exists but is expired
\* or used exactly as it answers a code that does not exist, whatever the
\* client and the other parameters.
C19_NotFoundLikeExpired ==
    \A i \in 1..Len(codes) :
        ~code_is_valid(codes[i]) =>
            \A client_id \in ClientIds, redirect_uri \in TokenRedirectInputs,
               code_verifier \in VerifierInputs :
                CodeGrantCheck(client_id, codes[i].code, redirect_uri, code_verifier)
                    = CodeGrantCheck(client_id, "code0", redirect_uri, code_verifier)

\* the secrets of the client that a rotation has replaced
OldSecrets(c) ==
    {"s3cret"} \cup {generate_secure_token("secret", k) :
                        k \in 1..(clients[c].secret_rotations - 1)}

CurrentSecret(c) == generate_secure_token("secret", clients[c].secret_rotations)

\* C24: once rotate-secret has committed for a confidential client, client
\* authentication of POST /token rejects every replaced secret and no request
\* authenticating from then on with one gets past it; the rotation writes no
\* refresh-token or code row, and every refresh token of the client that is
\* valid is accepted by the refresh_token grant with the new secret (an
\* inactive client stays rejected whatever the secret).
C24_RotatedSecretRejected ==
    /\ [](\A c \in DOMAIN clients :
            clients[c].secret_rotations > 0 =>
                /\ \A s \in OldSecrets(c) :
                    ClientAuth(c, s) \in {"Invalid client secret", "Invalid client"}
                /\ clients[c].is_active =>
                    /\ ClientAuth(c, CurrentSecret(c)) = "ok"
                    /\ \A i \in 1..Len(refreshTokens) :
                        (refreshTokens[i].client_id = c /\ token_is_valid(refreshTokens[i]))
                            => RefreshGrantCheck(c, generate_secure_token("rt", i)) = "ok")
    /\ [][\A c \in DOMAIN clients :
            clients'[c].client_secret_hash # clients[c].client_secret_hash
                => refreshTokens' = refreshTokens /\ codes' = codes]_vars
    /\ [][\A p \in Workers :
            (/\ w[p].pc = "idle"
             /\ w'[p].pc \in {"mark_used", "rotate"}
             /\ clients[w'[p].req.client_id].secret_rotations > 0)
                => w'[p].req.client_secret \notin OldSecrets(w'[p].req.client_id)]_vars

\* C24 witness: rotate-secret has answered with the new secret while a valid
\* refresh token issued to that client under the old secret is stored.
C24_Witness ==
    /\ response.op = "rotate-secret"
    /\ response.status = 200
    /\ \E i \in 1..Len(refreshTokens) :
        /\ refreshTokens[i].client_id = response.req.client_id
        /\ token_is_valid(refreshTokens[i])

\* C25: every stored authorization code belongs to a registered, active
\* client, its redirect_uri is one of that client's registered redirect_uris
\* (exact match), and every scope it was requested with (an absent scope
\* counting as openid) is one of the client's allowed_scopes.  Client rows do
\* not change their is_active, redirect_uris or allowed_scopes, so the state at
\* issuance is the current one.
C25_StoredCodesWereValidated ==
    \A i \in 1..Len(codes) :
        /\ codes[i].client_id \in DOMAIN clients
        /\ clients[codes[i].client_id].is_active
        /\ codes[i].redirect_uri \in clients[codes[i].client_id].redirect_uris
        /\ ScopesOf(codes[i].scope) \subseteq clients[codes[i].client_id].allowed_scopes

\* C25 witness: while a code is stored, /authorize has rejected a request
\* whose scope list contains a scope the client is not allowed.
C25_Witness ==
    /\ Len(codes) > 0
    /\ response.op = "authorize"
    /\ response.error = "invalid_scope"

\* C26: a code row is stored with used = FALSE, and from then on no step
\* removes the row, changes its code value, sets used back to FALSE, or stores
\* another row with a code value that an existing row already has.
C26_UsedFlagMonotonic ==
    [][/\ Len(codes') >= Len(codes)
       /\ \A i \in 1..Len(codes) :
            /\ codes'[i].code = codes[i].code
            /\ codes[i].used => codes'[i].used
       /\ \A i \in (Len(codes) + 1)..Len(codes') :
            /\ ~codes'[i].used
            /\ \A j \in 1..Len(codes) : codes'[i].code # codes[j].code]_vars

\* C26 witness: a second code has been issued after the first was marked
\* used by an exchange that then failed, and the first is still marked used.
C26_Witness ==
    /\ Len(codes) = 2
    /\ codes[1].used /\ redeemed[1] = 0
    /\ ~codes[2].used
    /\ \A p \in Workers : w[p].pc = "idle"

\* C27: POST /auth/refresh rotates only first-party session tokens: a request
\* that returns a new first-party access token and session refresh token has
\* presented a refresh token with no owning client.
C27_SessionRefreshRejectsClientTokens ==
    (response.op = "refresh" /\ response.status = 200)
        => refreshTokens[PresentedRow(response.req)].client_id = NoneV

RECURSIVE RotationsUpTo(_)
\* the number of refresh-token rows that rotations of rows 1..k have stored
RotationsUpTo(k) ==
    IF k = 0 THEN 0 ELSE rotated[k].token + rotated[k].refresh + RotationsUpTo(k - 1)

\* the rows stored by a login or a code exchange: the origins of the chains
ChainOrigins == Len(refreshTokens) - RotationsUpTo(Len(refreshTokens))

ValidRefreshRows == {i \in 1..Len(refreshTokens) : token_is_valid(refreshTokens[i])}

\* C28: every refresh-token row is the token of a login or code exchange or a
\* rotation successor of one; with at most one valid token per such chain,
\* the valid rows never outnumber the chains.
C28_OneValidTokenPerChain ==
    Cardinality(ValidRefreshRows) <= ChainOrigins

\* C29: the authorization_code grant returns tokens only for a user who is
\* active when the handler reads the user row, as the refresh_token grant does.
C29_NoTokensForInactiveUser ==
    (CodeExchangeResponse /\ response.status = 200)
        => users[codes[FindCode(response.req.code)].user_id].is_active

\* C30: a POST /token request that is rejected by client authentication or by
\* a check of the authorization_code grant (unknown, expired or used code,
\* client mismatch, redirect_uri mismatch, missing or wrong code_verifier)
\* writes no code row and no refresh-token row, and every request for a code
\* that passed the checks before it (the code's client, its redirect_uri, a
\* matching verifier) passes them after it.
C30_FailedExchangeChangesNothing ==
    [][(/\ response = NoResponse
        /\ response'.op = "token"
        /\ response'.status \in {400, 401}
        /\ w' = w)
            => /\ codes' = codes
               /\ refreshTokens' = refreshTokens
               /\ now' = now
               /\ \A i \in 1..Len(codes), code_verifier \in VerifierInputs :
                    CodeGrantCheck(codes[i].client_id, codes[i].code,
                                   codes[i].redirect_uri, code_verifier) = "ok"
                        => CodeGrantCheck(codes[i].client_id, codes[i].code,
                                          codes[i].redirect_uri, code_verifier)' = "ok"]_vars

\* C30 witness: an exchange presenting a wrong code_verifier for a valid code
\* has been rejected, and the code is still valid.
C30_Witness ==
    /\ CodeExchangeResponse
    /\ response.detail = "Invalid code verifier"
    /\ code_is_valid(codes[FindCode(response.req.code)])

\* ------------------------------------------------ verify_code_challenge alone
\* arguments of verify_code_challenge
PkceVerifiers == {"v1", "v2", "", "é"}
PkceChallenges == {"v1", "v2", "", "é", S256("v1"), S256("v2"), S256("é"),
                   S256("v1") \o "="}
PkceMethods == {"S256", "plain", "S512", "s256"}

\* code_verifier.encode("ascii") succeeds
ascii_encodable(code_verifier) == code_verifier # "é"

\* what a call of verify_code_challenge produces: its return value, or the
\* exception of the ascii encoding in the S256 branch
verify_code_challenge_call(code_verifier, code_challenge, method) ==
    IF method = "S256" /\ ~ascii_encodable(code_verifier) THEN "UnicodeEncodeError"
    ELSE IF verify_code_challenge(code_verifier, code_challenge, method) THEN "True"
    ELSE "False"

PendingCall(code_verifier, code_challenge, method) ==
    [op |-> "verify_code_challenge",
     req |-> [code_verifier |-> code_verifier, code_challenge |-> code_challenge,
              method |-> method],
     result |-> "pending"]

InitPkce ==
    /\ clients = RegisteredClients
    /\ users = RegisteredUsers
    /\ codes = <<>> /\ refreshTokens = <<>> /\ accessTokens = {}
    /\ now = 0
    /\ w = [p \in Workers |-> IdleWorker]
    /\ response \in {PendingCall(v, c, m) :
                        v \in PkceVerifiers, c \in PkceChallenges, m \in PkceMethods}
    /\ redeemed = <<>> /\ rotated = <<>>
    /\ nLogins = 0 /\ nReq = 0 /\ nTicks = 0

call_verify_code_challenge ==
    /\ response.op = "verify_code_challenge"
    /\ response.result = "pending"
    /\ response' = [response EXCEPT !.result =
            verify_code_challenge_call(response.req.code_verifier,
                                       response.req.code_challenge, response.req.method)]
    /\ UNCHANGED <<clients, users, codes, refreshTokens, accessTokens, now, w,
                   redeemed, rotated, nLogins, nReq, nTicks>>

SpecPkce == InitPkce /\ [][call_verify_code_challenge]_vars

\* C20: a call of verify_code_challenge returns, for method S256, whether the
\* challenge is the unpadded base64url SHA-256 of the verifier; for method
\* plain, whether verifier and challenge are equal; for any other method,
\* false.
C20_VerifyPkceTruthTable ==
    (response.op = "verify_code_challenge" /\ response.result # "pending") =>
        LET v == response.req.code_verifier
            c == response.req.code_challenge
            expected == IF response.req.method = "S256" THEN S256(v) = c
                        ELSE IF response.req.method = "plain" THEN v = c
                        ELSE FALSE
        IN  response.result = IF expected THEN "True" ELSE "False"

\* a stored code of a confidential client issued for scope "openid profile"
OidcCodeOfConfidential(i) ==
    /\ is_confidential(clients[codes[i].client_id])
    /\ codes[i].scope = {"openid", "profile"}

\* C21: a valid code of a confidential client issued for scope
\* "openid profile" passes the checks of /token when presented with the
\* client's secret and the redirect_uri of the authorization request (and the
\* verifier of its challenge, if it was issued with one); the exchange returns
\* an access token, a refresh token and an id_token whose aud is the client;
\* the returned refresh token passes the checks of the refresh_token grant,
\* and that grant returns a new access token and a new refresh token.
C21_EndToEnd ==
    /\ \A i \in 1..Len(codes) :
        (OidcCodeOfConfidential(i) /\ code_is_valid(codes[i])) =>
            /\ ClientAuth(codes[i].client_id, "s3cret") = "ok"
            /\ \E v \in VerifierInputs :
                /\ ~requires_pkce(codes[i]) => v = NoneV
                /\ CodeGrantCheck(codes[i].client_id, codes[i].code,
                                  codes[i].redirect_uri, v) = "ok"
    /\ (CodeExchangeResponse /\ OidcCodeOfConfidential(FindCode(response.req.code))
            /\ response.req.redirect_uri = codes[FindCode(response.req.code)].redirect_uri
            /\ response.detail \notin {"Code verifier required", "Invalid code verifier"}) =>
        /\ response.status = 200
        /\ response.tokens.access_token.type = "access"
        /\ response.tokens.access_token \in accessTokens
        /\ response.tokens.id_token.type = "id"
        /\ response.tokens.id_token.aud = response.req.client_id
        /\ RefreshGrantCheck(response.req.client_id, response.tokens.refresh_token) = "ok"
    /\ (RefreshGrantResponse /\ response.status = 200) =>
        /\ response.tokens.access_token \in accessTokens
        /\ response.tokens.refresh_token # response.req.refresh_token
        /\ token_is_valid(refreshTokens[FindRefreshToken(
                                hash_token(response.tokens.refresh_token))])

\* C21 witness: the confidential client has refreshed with the refresh token
\* of an exchange of a code issued for scope "openid profile".
C21_Witness ==
    /\ RefreshGrantResponse
    /\ response.status = 200
    /\ response.req.client_id = "conf"
    /\ response.tokens.scope = {"openid", "profile"}
    /\ \E i \in 1..Len(codes) : OidcCodeOfConfidential(i) /\ redeemed[i] = 1

\* C22: a successful code exchange returns an id_token iff "openid" is in the
\* scope the code was granted for (no scope counting as "openid"); the
\* id_token's aud is the client of the request and its nonce is the nonce of
\* the authorization request, absent iff that one was absent.
C22_IdTokenIffOpenid ==
    (CodeExchangeResponse /\ response.status = 200) =>
        LET auth_code == codes[FindCode(response.req.code)]
            granted == IF auth_code.scope = {} THEN {"openid"} ELSE auth_code.scope
            id_token == response.tokens.id_token
        IN  /\ (id_token # NoIdToken) <=> ("openid" \in granted)
            /\ id_token # NoIdToken =>
                /\ id_token.type = "id"
                /\ id_token.aud = response.req.client_id
                /\ id_token.sub = auth_code.user_id
                /\ id_token.nonce = auth_code.nonce

\* C22 witness: an exchange has returned an id_token that carries the nonce
\* of the authorization request.
C22_Witness ==
    /\ CodeExchangeResponse
    /\ response.status = 200
    /\ response.tokens.id_token # NoIdToken
    /\ response.tokens.id_token.nonce = "n1"

\* -------------------------------------------- core/security.py key resolution
\* str.lower() on the ENVIRONMENT values of the model
lower(s) == IF s = "Production" THEN "production" ELSE s

is_production(settings) == lower(settings.ENVIRONMENT) = "production"

is_development_always(settings) == TRUE

is_development(settings) == lower(settings.ENVIRONMENT) = "development"

\* the settings and the key files a process starts with
KeySettings ==
    [ENVIRONMENT : {"production", "Production", "development", "staging"},
     JWT_PRIVATE_KEY : {NoneV, "", "cfg-private"},
     JWT_PUBLIC_KEY : {NoneV, "cfg-public"},
     JWT_PRIVATE_KEY_PATH : {NoneV, "/keys/private.pem"},
     JWT_PUBLIC_KEY_PATH : {NoneV, "/keys/public.pem"},
     private_path_exists : BOOLEAN,
     public_path_exists : BOOLEAN]

\* _load_or_generate_keys: the cached pair afterwards and how the call ended
load_or_generate_keys_result(settings, private_key, public_key) ==
    IF Truthy(private_key) /\ Truthy(public_key)
        THEN [private_key |-> private_key, public_key |-> public_key, result |-> "cached"]
    ELSE IF Truthy(settings.JWT_PRIVATE_KEY) /\ Truthy(settings.JWT_PUBLIC_KEY)
        THEN [private_key |-> settings.JWT_PRIVATE_KEY,
              public_key |-> settings.JWT_PUBLIC_KEY, result |-> "returned"]
    ELSE IF /\ Truthy(settings.JWT_PRIVATE_KEY_PATH) /\ Truthy(settings.JWT_PUBLIC_KEY_PATH)
            /\ settings.private_path_exists /\ settings.public_path_exists
        THEN [private_key |-> "file-private", public_key |-> "file-public",
              result |-> "returned"]
    ELSE IF is_development(settings)
        THEN [private_key |-> "generated-private", public_key |-> "generated-public",
              result |-> "returned"]
    ELSE [private_key |-> private_key, public_key |-> public_key, result |-> "ValueError"]

InitKeys ==
    /\ clients = RegisteredClients
    /\ users = RegisteredUsers
    /\ codes = <<>> /\ refreshTokens = <<>> /\ accessTokens = {}
    /\ now = 0
    /\ w = [p \in Workers |-> IdleWorker]
    /\ response \in {[op |-> "keys", settings |-> s, private_key |-> NoneV,
                      public_key |-> NoneV, result |-> "none"] : s \in KeySettings}
    /\ redeemed = <<>> /\ rotated = <<>>
    /\ nLogins = 0 /\ nReq = 0 /\ nTicks = 0

\* get_private_key() / get_public_key(): a call of _load_or_generate_keys
load_or_generate_keys ==
    /\ response.op = "keys"
    /\ LET out == load_or_generate_keys_result(response.settings, response.private_key,
                                               response.public_key)
       IN  response' = [response EXCEPT !.private_key = out.private_key,
                                        !.public_key = out.public_key,
                                        !.result = out.result]
    /\ UNCHANGED <<clients, users, codes, refreshTokens, accessTokens, now, w,
                   redeemed, rotated, nLogins, nReq, nTicks>>

SpecKeys == InitKeys /\ [][load_or_generate_keys]_vars

KeysConfigured(settings) ==
    \/ settings.JWT_PRIVATE_KEY \notin {NoneV, ""} /\ settings.JWT_PUBLIC_KEY \notin {NoneV, ""}
    \/ /\ settings.JWT_PRIVATE_KEY_PATH # NoneV /\ settings.JWT_PUBLIC_KEY_PATH # NoneV
       /\ settings.private_path_exists /\ settings.public_path_exists

\* C23: in production mode the cached signing key is never a generated one;
\* when neither the configured key strings nor the configured key files give
\* a pair, a resolution ends with an error and leaves the cache unset.
C23_NoEphemeralKeyInProduction ==
    (response.op = "keys" /\ is_production(response.settings)) =>
        /\ response.private_key # "generated-private"
        /\ response.public_key # "generated-public"
        /\ (~KeysConfigured(response.settings) /\ response.result # "none") =>
            /\ response.result = "ValueError"
            /\ response.private_key = NoneV
            /\ response.public_key = NoneV

\* C23 witness: a resolution in production mode without configured keys has
\* failed.
C23_Witness ==
    /\ response.op = "keys"
    /\ response.settings.ENVIRONMENT = "Production"
    /\ response.settings.JWT_PRIVATE_KEY_PATH # NoneV
    /\ ~KeysConfigured(response.settings)
    /\ response.result = "ValueError"

====
